---- MODULE Spec2Model ----
(***************************************************************************)
(* VideoCaptureContext (datainterfaces/behavior/movie/movie_utils.py): a   *)
(* cv2.VideoCapture subclass that adds a frame cursor, random access to    *)
(* frames, an iterator protocol and a context-manager protocol.            *)
(*                                                                         *)
(* The native capture object is modelled by what the wrapper observes of   *)
(* it: whether it is opened, and the index of the next frame it decodes.   *)
(* The source file is the environment: how many frames it holds, which of  *)
(* them fail to decode, whether it accepts seeks and whether it can still  *)
(* be (re)opened.  Frame k of the file is the buffer FrameBuf(k).          *)
(***************************************************************************)
EXTENDS Integers, Sequences, FiniteSets

\* ------------------------------------------------------------------ bounds
\* Largest true frame count of a source file.
MaxFrames == 3

\* Most changes the source file undergoes after the handle was constructed.
MaxFaults == 1

\* get_movie_frame_count: "if stub the assume a max frame count of 10".
StubFrameCount == 10

\* Frame rate of the sources (the test movies are written at 25 fps).
FileFps == 25

\* Times are integers counting units of 1e-10, one digit below the 9 decimals
\* check_regular_timestamps rounds to.  The sources' nominal frame interval:
FrameTicks == 400

\* Deviations of a frame's native timestamp: one that rounding to 9 decimals
\* removes, and one it does not.
JitterSmall == 3
JitterBig == 50

\* Frame shapes of the sources, abstracted to two distinct shapes.
Shapes == {<<2, 3>>, <<3, 2>>}

Min(a, b) == IF a < b THEN a ELSE b

VARIABLES
    \* --- the source file (environment)
    count,        \* number of frames the file holds
    corrupt,      \* indices of the frames whose decode fails
    seekable,     \* the backend accepts set(CAP_PROP_POS_FRAMES, n)
    present,      \* the file can be opened
    faults,       \* changes of the file since the handle was constructed
    shape,        \* shape of the file's frames
    jitter,       \* lateness of the native timestamp of the file's third frame
    \* --- cv2.VideoCapture native state
    opened,       \* isOpened()
    pos,          \* index of the next frame read() decodes
    \* --- VideoCaptureContext fields
    stub,         \* self.stub
    cur,          \* self._current_frame
    frame_count,  \* self.frame_count
    fps,          \* self.fps
    frame,        \* self.frame, the cached first frame
    alive,        \* the object has not been finalised by __del__
    \* --- what the caller observes
    last,         \* outcome of the last call
    \* --- the sequential iteration (a for-loop over the object)
    iter,         \* "idle": none yet, "active": in progress, "done": stopped
    clean,        \* no random access and no change of the file since it began
    yielded,      \* elements it yielded so far (kept while clean)
    start,        \* cursor when it began (kept while clean)
    startOpen,    \* isOpened() when it began (kept while clean)
    startAfter,   \* what preceded it: "first" (nothing), "exhausted" (an
                  \* iteration that had just run to exhaustion), "other"
    \* --- check_regular_timestamps(ts), applied to one series
    rg_ts,        \* the argument
    rg_out,       \* "none" before the call, then the value returned
    \* --- MovieInterface.run_conversion, one call
    file_paths,        \* self.source_data["file_paths"]
    external_mode,     \* argument
    chunk_data,        \* argument, and local variable of the call
    chunk_shape,       \* argument: <<>> for None
    supplied,          \* starting_times was given (is not None)
    starting_times_arg,\* the list given as starting_times, as it was passed
    starting_times,    \* the list the call works on
    file_j,            \* j of the loop: files converted so far, index of the next
    pc,                \* "idle", "new", "loop", "done", "aborted"
    acquisition,       \* ImageSeries added to the NWBFile, in order, each
                       \* with the places it was added to
    available,         \* psutil.virtual_memory().available for the next file
                       \* (read in embedded mode only)
    st_size,           \* Path(file).stat().st_size of the next file
    arg_type,          \* what was given as starting_times: "None", "floats" (a
                       \* list of floats), "ints" (a list of ints), "tuple"
    module_name,       \* argument: "None" or the name of a processing module
    module_description,\* argument: "None" or a description
    processing,        \* the processing modules of the NWBFile
    total_frames,      \* chunked write: frames of the source
    memory_budget,     \* chunked write: the memory budget, in bytes
    bytes_per_frame,   \* chunked write: bytes of one frame
    chunk_frames,      \* chunked write: frames per chunk, -1 before planning
    chunks,            \* chunked write: the chunks that arrived, in order
    ls_arg,            \* append_replace_dict_in_list: ls
    d_arg,             \* append_replace_dict_in_list: d
    deep_arg,          \* append_replace_dict_in_list: list_dict_deep_update
    ar_out,            \* append_replace_dict_in_list: what the call gave
    \* --- consumers sharing one handle
    holders,      \* consumers that obtained an iterator from the handle
    stepper,      \* consumer whose call of __next__ is the latest (0: none)
    prev          \* consumer whose call of __next__ came before it (0: none)

envVars == <<count, corrupt, seekable, present, shape, jitter, faults>>
cvVars == <<opened, pos>>
objVars == <<stub, cur, frame_count, fps, frame, alive>>
iterVars == <<iter, yielded, clean, start, startOpen, startAfter>>
regVars == <<rg_ts, rg_out>>
convVars == <<file_paths, external_mode, chunk_data, chunk_shape, supplied,
              starting_times_arg, starting_times, file_j, pc, acquisition,
              available, st_size, arg_type, module_name, module_description,
              processing>>

\* What the operations of a VideoCaptureContext leave alone.
shareVars == <<holders, stepper, prev>>
chunkVars == <<total_frames, memory_budget, bytes_per_frame, chunk_frames, chunks>>
dictVars == <<ls_arg, d_arg, deep_arg, ar_out>>
pureVars == <<chunkVars, dictVars>>
sideVars == <<regVars, convVars, shareVars, pureVars>>

\* The iteration was interrupted: its record is dropped.
Interrupted ==
    /\ clean' = FALSE
    /\ yielded' = <<>>
    /\ start' = 0
    /\ startOpen' = FALSE
    /\ startAfter' = "other"
    /\ UNCHANGED iter
vars == <<envVars, cvVars, objVars, last, iterVars, sideVars>>

\* ------------------------------------------------------------------ values
\* A decoded frame: cv2's read() at native position k.
FrameBuf(k) == [kind |-> "frame", idx |-> k, shape |-> shape]

\* self.frame.shape
GetFrameShape == frame.shape

\* np.nan * np.ones(self.get_frame_shape())
NaNBuf == [kind |-> "nan", idx |-> -1, shape |-> GetFrameShape]

\* The outcome of a call: what it returned or raised.
\*   kind: "ok" (returned nothing), "frame", "nan", "none" (returned None),
\*         "StopIteration", "ValueError", "AssertionError"
\*   decoded: "ok"/"fail" when the call performed a read(), else "none"
\*   cause: for StopIteration, "exhausted" or "error"; else "none"
\*   ts: the array get_movie_timestamps returned (kind "ts"); else empty
Outcome(op, arg, kind, buf, decoded, wasOpen, cause) ==
    [op |-> op, arg |-> arg, kind |-> kind, idx |-> buf.idx, shape |-> buf.shape,
     decoded |-> decoded, wasOpen |-> wasOpen, cause |-> cause, ts |-> <<>>]

NoBuf == [kind |-> "none", idx |-> -1, shape |-> <<>>]

Yields == {"frame", "nan"}
Raises == {"StopIteration", "ValueError", "AssertionError"}

\* ------------------------------------------------------------------ cv2
\* Mutant: the file never opens again.
CvOpenOk_Never == FALSE

\* cv2.VideoCapture.__init__(*args): opens the file, positioned at frame 0.
CvOpenOk == present

\* set(CAP_PROP_POS_FRAMES, n) returns True
CvSetOk(isOpen, n) == isOpen /\ seekable

\* native position after a successful set(CAP_PROP_POS_FRAMES, n)
CvPosAfterSet(n) == Min(n, count)

\* read() returns success at native position p
CvReadOk(isOpen, p) == isOpen /\ p < count /\ p \notin corrupt

\* get(CAP_PROP_POS_MSEC) at native position p of a file whose third frame is
\* late by jit
PosMsec(p, jit) == FrameTicks * p + (IF p = 2 THEN jit ELSE 0)

\* ------------------------------------------------------------------ idle parts
\* No check_regular_timestamps call is under way.
RegIdle == rg_ts = <<>> /\ rg_out = "none"

\* One consumer at most uses the handle.
ShareIdle == holders = {} /\ stepper = 0 /\ prev = 0

\* A mapping of the metadata lists: its compare_key value ("none": the key
\* is absent) and one more field ("x", -1: absent). tag "int": not a mapping.
NoDict == [tag |-> "dict", name |-> "none", x |-> -1]

\* No chunked write planned and append_replace_dict_in_list not called.
PureIdle ==
    /\ total_frames = 0
    /\ memory_budget = 0
    /\ bytes_per_frame = 0
    /\ chunk_frames = -1
    /\ chunks = <<>>
    /\ ls_arg = <<>>
    /\ d_arg = NoDict
    /\ deep_arg = FALSE
    /\ ar_out = [kind |-> "none", ls |-> <<>>]

\* run_conversion is not called.
ConvIdle ==
    /\ file_paths = <<>>
    /\ external_mode = TRUE
    /\ chunk_data = TRUE
    /\ chunk_shape = <<>>
    /\ supplied = FALSE
    /\ starting_times_arg = <<>>
    /\ starting_times = <<>>
    /\ file_j = 0
    /\ pc = "idle"
    /\ acquisition = <<>>
    /\ available = 0
    /\ st_size = 0
    /\ arg_type = "None"
    /\ module_name = "None"
    /\ module_description = "None"
    /\ processing = <<>>

\* ------------------------------------------------------------------ Init
\* The state after VideoCaptureContext(path, stub=...) returned: the file
\* opened, frame 0 was sought, decoded and cached, and the cursor is back at 0.
Init ==
    /\ count \in 1..MaxFrames
    /\ corrupt \in SUBSET (1..(count - 1))
    /\ seekable = TRUE
    /\ present = TRUE
    /\ faults = 0
    /\ shape \in Shapes
    /\ jitter \in (IF count = 3 THEN {0, JitterBig} ELSE {0})
    /\ opened = TRUE
    /\ pos = 0
    /\ stub \in BOOLEAN
    /\ cur = 0
    /\ frame_count = (IF stub THEN StubFrameCount ELSE count)
    /\ fps = FileFps
    /\ frame = [kind |-> "frame", idx |-> 0, shape |-> shape]
    /\ alive = TRUE
    /\ last = Outcome("init", -1, "ok", NoBuf, "ok", FALSE, "none")
    /\ iter = "idle"
    /\ yielded = <<>>
    /\ clean = TRUE
    /\ start = 0
    /\ startOpen = TRUE
    /\ startAfter = "first"
    /\ RegIdle
    /\ ConvIdle
    /\ ShareIdle
    /\ PureIdle

\* ------------------------------------------------------------------ helpers
\* Mutant: the frame count is one too large, as with "<=" for "<" in the check.
GetMovieFrameCount_OffByOne == (IF stub THEN StubFrameCount ELSE count) + 1

\* get_movie_frame_count(): 10 in stub mode, else the container's frame count
\* (cv2 reports 0 for every property of a capture that is not opened).
GetMovieFrameCount == IF stub THEN StubFrameCount ELSE IF opened THEN count ELSE 0

\* Mutant: the constructor without its check of the first frame.
CtorFrameOk_Unchecked(res) == TRUE

\* __init__: assert self.frame is not None, "unable to read the movie file provided"
CtorFrameOk(res) == res.kind # "none"

\* Mutant: the scan leaves the cursor on the last frame it visited.
TimestampsCursorAfter_Kept == GetMovieFrameCount - 1

\* get_movie_timestamps: "self.current_frame = 0" after the scan
TimestampsCursorAfter == 0

\* Mutant: the scan starts from an empty list, without the first position.
MovieTimestamps_DropsFirst(p0, n, cnt, jit) ==
    [j \in 1..(n - 1) |-> PosMsec(Min(j, cnt), jit)]

\* get_movie_timestamps: the array built for a handle whose native position is
\* p0 and whose frame count is n, over a file of cnt frames: the position
\* field where the handle stands, then the field after a seek to 1, ..., n-1.
MovieTimestamps(p0, n, cnt, jit) ==
    [j \in 1..n |-> IF j = 1 THEN PosMsec(p0, jit) ELSE PosMsec(Min(j - 1, cnt), jit)]

\* Mutant: __next__ without its re-open of a released handle.
OpenForStep_NoReopen == opened

\* __next__: "if not self.isOpened(): super().__init__(*self._args, **self._kwargs)"
OpenForStep == IF opened THEN TRUE ELSE CvOpenOk

\* Mutant: the step at the cursor frame_count still reads.
MoreFrames_Inclusive == cur <= frame_count

\* __next__: "if self._current_frame < self.frame_count"
MoreFrames == cur < frame_count

\* Mutant: the cursor advances by two.
CursorAfterStep_Skip == cur + 2

\* __next__: "self._current_frame += 1"
CursorAfterStep == cur + 1

\* Mutant: the step does not release the handle.
OpenedAfterStep_Kept == TRUE

\* __next__: "self.release()" after the read of every step
OpenedAfterStep == FALSE

\* Mutant: a failed decode yields the cached first frame instead of a sentinel.
StepElement_NoSentinel(success, p) == IF success THEN FrameBuf(p) ELSE frame

\* __next__: "if success: return frame / else: return np.nan * np.ones(...)"
StepElement(success, p) == IF success THEN FrameBuf(p) ELSE NaNBuf

\* Mutant: the cursor is not rewound at the end of the sequence.
CursorAfterExhaustion_Kept == cur

\* __next__: "self._current_frame = 0" when the cursor reached frame_count
CursorAfterExhaustion == 0

\* __next__: the handle after "except Exception: raise StopIteration", which
\* releases nothing: it is as the reopen attempt left it.
OpenedAfterStepError == OpenForStep

\* Mutant: no sentinel branch, every failed decode returns None.
GetMovieFrameResult_NoSentinel(frame_no, success, p) ==
    IF success THEN FrameBuf(p) ELSE NoBuf

\* get_movie_frame: "if success: return frame / elif frame_no > 0: return nan"
\* and the implicit "return None" that ends the function.
GetMovieFrameResult(frame_no, success, p) ==
    IF success THEN FrameBuf(p)
    ELSE IF frame_no > 0 THEN NaNBuf
    ELSE NoBuf

\* ------------------------------------------------------------------ actions
\* VideoCaptureContext.__next__
NextStep ==
    /\ UNCHANGED sideVars
    /\ alive
    /\ LET fresh == iter # "active"
           isOpen == OpenForStep
           p0 == IF opened THEN pos ELSE 0
           ys == IF fresh THEN <<>> ELSE yielded
           cl == IF fresh THEN TRUE ELSE clean
       IN /\ start' = (IF fresh THEN cur ELSE start)
          /\ startOpen' = (IF fresh THEN opened ELSE startOpen)
          /\ startAfter' = (IF ~fresh THEN startAfter
                            ELSE IF iter = "idle" THEN "first"
                            ELSE IF last.op = "next" /\ last.cause = "exhausted"
                                 THEN "exhausted"
                            ELSE "other")
          /\ clean' = cl
          /\ IF MoreFrames
             THEN IF CvSetOk(isOpen, cur)
                  THEN LET p == CvPosAfterSet(cur)
                           success == CvReadOk(isOpen, p)
                           elem == StepElement(success, p)
                       IN /\ cur' = CursorAfterStep
                          /\ opened' = OpenedAfterStep
                          /\ pos' = (IF OpenedAfterStep THEN Min(p + 1, count) ELSE 0)
                          /\ last' = Outcome("next", -1, elem.kind, elem,
                                             IF success THEN "ok" ELSE "fail",
                                             opened, "none")
                          /\ iter' = "active"
                          /\ yielded' = (IF cl THEN Append(ys, elem) ELSE ys)
                  ELSE \* the setter raised ValueError, turned into StopIteration
                       /\ cur' = cur
                       /\ opened' = OpenedAfterStepError
                       /\ pos' = p0
                       /\ last' = Outcome("next", -1, "StopIteration", NoBuf,
                                          "none", opened, "error")
                       /\ iter' = "done"
                       /\ yielded' = ys
             ELSE /\ cur' = CursorAfterExhaustion
                  /\ opened' = FALSE
                  /\ pos' = 0
                  /\ last' = Outcome("next", -1, "StopIteration", NoBuf,
                                     "none", opened, "exhausted")
                  /\ iter' = "done"
                  /\ yielded' = ys
    /\ UNCHANGED <<envVars, stub, frame_count, fps, frame, alive>>

\* Mutant: get_movie_frame without its "self.current_frame = 0": the cursor
\* stays on the frame that was read.
GetMovieFrame_KeepsCursor(frame_no) ==
    /\ UNCHANGED sideVars
    /\ alive
    /\ IF ~opened \/ ~(frame_no < GetMovieFrameCount) \/ ~CvSetOk(opened, frame_no)
       THEN /\ last' = Outcome("get_movie_frame", frame_no,
                               IF opened /\ ~(frame_no < GetMovieFrameCount)
                               THEN "AssertionError" ELSE "ValueError",
                               NoBuf, "none", opened, "none")
            /\ UNCHANGED <<cur, cvVars, iterVars>>
       ELSE LET p == CvPosAfterSet(frame_no)
                success == CvReadOk(opened, p)
                res == GetMovieFrameResult(frame_no, success, p)
            IN /\ Interrupted
               /\ opened' = opened
               /\ cur' = frame_no
               /\ pos' = Min(p + 1, count)
               /\ last' = Outcome("get_movie_frame", frame_no, res.kind, res,
                                  IF success THEN "ok" ELSE "fail", opened, "none")
    /\ UNCHANGED <<envVars, stub, frame_count, fps, frame, alive>>

\* VideoCaptureContext.get_movie_frame(frame_no)
GetMovieFrame(frame_no) ==
    /\ UNCHANGED sideVars
    /\ alive
    /\ IF ~opened
       THEN /\ last' = Outcome("get_movie_frame", frame_no, "ValueError", NoBuf,
                               "none", opened, "none")
            /\ UNCHANGED <<cur, cvVars, iterVars>>
       ELSE IF ~(frame_no < GetMovieFrameCount)
       THEN /\ last' = Outcome("get_movie_frame", frame_no, "AssertionError", NoBuf,
                               "none", opened, "none")
            /\ UNCHANGED <<cur, cvVars, iterVars>>
       ELSE IF ~CvSetOk(opened, frame_no)
       THEN /\ last' = Outcome("get_movie_frame", frame_no, "ValueError", NoBuf,
                               "none", opened, "none")
            /\ UNCHANGED <<cur, cvVars, iterVars>>
       ELSE LET p == CvPosAfterSet(frame_no)
                success == CvReadOk(opened, p)
                res == GetMovieFrameResult(frame_no, success, p)
            IN /\ Interrupted
               /\ opened' = opened
               /\ IF CvSetOk(opened, 0)
                  THEN /\ cur' = 0
                       /\ pos' = CvPosAfterSet(0)
                       /\ last' = Outcome("get_movie_frame", frame_no, res.kind, res,
                                          IF success THEN "ok" ELSE "fail",
                                          opened, "none")
                  ELSE /\ cur' = frame_no
                       /\ pos' = Min(p + 1, count)
                       /\ last' = Outcome("get_movie_frame", frame_no, "ValueError",
                                          NoBuf, IF success THEN "ok" ELSE "fail",
                                          opened, "none")
    /\ UNCHANGED <<envVars, stub, frame_count, fps, frame, alive>>

\* VideoCaptureContext.__init__(path, stub=stub), on a file of any kind: how
\* it ends ("ok", or the exception raised) given whether the file opened.
\* get_movie_frame(0) raises ValueError on a capture that did not open or
\* refuses the seek, fails its assertion when the frame count is 0, and
\* returns None when frame 0 does not decode.
CtorOutcome(isOpen) ==
    LET n == IF stub THEN StubFrameCount ELSE IF isOpen THEN count ELSE 0
    IN IF ~isOpen THEN "ValueError"
       ELSE IF ~(0 < n) THEN "AssertionError"
       ELSE IF ~CvSetOk(isOpen, 0) THEN "ValueError"
       ELSE IF ~CtorFrameOk(GetMovieFrameResult(0, CvReadOk(isOpen, 0), 0))
            THEN "AssertionError"
       ELSE "ok"

Construct ==
    /\ UNCHANGED sideVars
    /\ ~alive /\ last.op = "new"
    /\ LET isOpen == CvOpenOk
           how == CtorOutcome(isOpen)
       IN IF how = "ok"
          THEN /\ alive' = TRUE
               /\ opened' = TRUE
               /\ pos' = CvPosAfterSet(0)
               /\ cur' = 0
               /\ frame_count' = (IF stub THEN StubFrameCount ELSE count)
               /\ fps' = FileFps
               /\ frame' = (IF CvReadOk(isOpen, 0) THEN FrameBuf(0) ELSE NoBuf)
               /\ last' = Outcome("init", -1, "ok", NoBuf, "ok", FALSE, "none")
          ELSE \* no object is obtained; the capture is released with it
               /\ last' = Outcome("init", -1, how, NoBuf, "none", FALSE, "none")
               /\ UNCHANGED <<alive, cvVars, cur, frame_count, fps, frame>>
    /\ UNCHANGED <<envVars, stub, iterVars>>

\* VideoCaptureContext.get_movie_timestamps
GetMovieTimestamps ==
    /\ UNCHANGED sideVars
    /\ alive
    /\ IF ~opened
       THEN /\ last' = Outcome("get_movie_timestamps", -1, "ValueError", NoBuf,
                               "none", opened, "none")
            /\ UNCHANGED <<cur, cvVars, iterVars>>
       ELSE IF ~CvSetOk(opened, 0)
       THEN \* the first seek of the scan (to 1, or back to 0) is refused
            /\ last' = Outcome("get_movie_timestamps", -1, "ValueError", NoBuf,
                               "none", opened, "none")
            /\ UNCHANGED <<cur, cvVars, iterVars>>
       ELSE /\ Interrupted
            /\ opened' = opened
            /\ cur' = TimestampsCursorAfter
            /\ pos' = CvPosAfterSet(TimestampsCursorAfter)
            /\ last' = [Outcome("get_movie_timestamps", -1, "ts", NoBuf,
                                "none", opened, "none")
                        EXCEPT !.ts = MovieTimestamps(pos, GetMovieFrameCount,
                                                      count, jitter)]
    /\ UNCHANGED <<envVars, stub, frame_count, fps, frame, alive>>

\* VideoCaptureContext.__enter__
Enter ==
    /\ UNCHANGED sideVars
    /\ alive
    /\ opened' = (IF opened THEN TRUE ELSE CvOpenOk)
    /\ pos' = (IF opened THEN pos ELSE 0)
    /\ last' = Outcome("enter", -1, "ok", NoBuf, "none", opened, "none")
    /\ UNCHANGED <<envVars, objVars, iterVars>>

\* Mutant: closing rewinds the cursor.
Exit_Rewinds ==
    /\ UNCHANGED sideVars
    /\ alive
    /\ opened' = FALSE
    /\ pos' = 0
    /\ cur' = 0
    /\ last' = Outcome("exit", -1, "ok", NoBuf, "none", opened, "none")
    /\ UNCHANGED <<envVars, stub, frame_count, fps, frame, alive, iterVars>>

\* VideoCaptureContext.__exit__
Exit ==
    /\ UNCHANGED sideVars
    /\ alive
    /\ opened' = FALSE
    /\ pos' = 0
    /\ last' = Outcome("exit", -1, "ok", NoBuf, "none", opened, "none")
    /\ UNCHANGED <<envVars, objVars, iterVars>>

\* VideoCaptureContext.__del__: the object is finalised, no call follows it.
Del ==
    /\ UNCHANGED sideVars
    /\ alive
    /\ alive' = FALSE
    /\ opened' = FALSE
    /\ pos' = 0
    /\ last' = Outcome("del", -1, "ok", NoBuf, "none", opened, "none")
    /\ UNCHANGED <<envVars, stub, cur, frame_count, fps, frame, iterVars>>

\* ------------------------------------------------------------------ environment
\* Frame k of the file stops decoding (the file is damaged or truncated on
\* disk, or the decoder starts failing on it): read() reports no success there.
CorruptFrame(k) ==
    /\ UNCHANGED sideVars
    /\ alive /\ faults < MaxFaults
    /\ k \notin corrupt
    /\ corrupt' = corrupt \cup {k}
    /\ faults' = faults + 1
    /\ Interrupted
    /\ UNCHANGED <<count, seekable, present, shape, jitter, cvVars, objVars, last>>

\* The backend starts refusing seeks: set(CAP_PROP_POS_FRAMES, n) returns False.
SeekBreaks ==
    /\ UNCHANGED sideVars
    /\ alive /\ faults < MaxFaults
    /\ seekable
    /\ seekable' = FALSE
    /\ faults' = faults + 1
    /\ Interrupted
    /\ UNCHANGED <<count, corrupt, present, shape, jitter, cvVars, objVars, last>>

\* The file is removed or becomes unreadable: it can no longer be opened.
FileVanishes ==
    /\ UNCHANGED sideVars
    /\ alive /\ faults < MaxFaults
    /\ present
    /\ present' = FALSE
    /\ faults' = faults + 1
    /\ Interrupted
    /\ UNCHANGED <<count, corrupt, seekable, shape, jitter, cvVars, objVars, last>>

\* Frame numbers callers pass: the first ones, and those around frame_count.
FrameArgs == (0..MaxFrames) \cup {frame_count - 1, frame_count, frame_count + 1}

Next ==
    \/ NextStep
    \/ \E i \in FrameArgs : GetMovieFrame(i)
    \/ GetMovieTimestamps
    \/ Enter
    \/ Exit
    \/ Del
    \/ \E k \in 0..(count - 1) : CorruptFrame(k)
    \/ SeekBreaks
    \/ FileVanishes

Spec == Init /\ [][Next]_vars

\* ------------------------------------------------------- a shared handle
\* Consumers that hold a reference to one handle.
Consumers == {1, 2}

\* VideoCaptureContext.__iter__, called by consumer c: it returns the handle
\* itself, whatever the state of the handle.
Iter(c) ==
    /\ alive
    /\ holders' = holders \cup {c}
    /\ last' = Outcome("iter", c, "ok", NoBuf, "none", opened, "none")
    /\ UNCHANGED <<stepper, prev, regVars, convVars, pureVars, envVars, cvVars, objVars, iterVars>>

\* Consumer c, who holds an iterator, calls next() on it.
CallNext(c) ==
    /\ alive
    /\ c \in holders
    /\ last.op # "call"
    /\ stepper' = c
    /\ prev' = stepper
    /\ last' = Outcome("call", c, "ok", NoBuf, "none", opened, "none")
    /\ UNCHANGED <<holders, regVars, convVars, pureVars, envVars, cvVars, objVars, iterVars>>

\* The call runs VideoCaptureContext.__next__.
StepCalled ==
    /\ last.op = "call"
    /\ NextStep

NextShare ==
    \/ \E c \in Consumers : Iter(c)
    \/ \E c \in Consumers : CallNext(c)
    \/ StepCalled

\* Two consumers of one handle, from its construction on.
SpecShare == Init /\ [][NextShare]_vars

\* ------------------------------------------------------- repeated __next__
\* The handle states a run of __next__ calls can start from: any cursor from
\* 0 to frame_count, the capture open at any native position or released.
DrainStart ==
    /\ count \in 1..MaxFrames
    /\ corrupt \in SUBSET (0..(count - 1))
    /\ seekable \in BOOLEAN
    /\ present \in BOOLEAN
    /\ faults \in 0..MaxFaults
    /\ shape \in Shapes
    /\ stub \in BOOLEAN
    /\ frame_count = (IF stub THEN StubFrameCount ELSE count)
    /\ cur \in 0..frame_count
    /\ opened \in BOOLEAN
    /\ pos \in (IF opened THEN 0..count ELSE {0})
    /\ fps = FileFps
    /\ frame = [kind |-> "frame", idx |-> 0, shape |-> shape]
    /\ alive = TRUE

\* The file is as at construction; what happens to it later happens during
\* the run.
InitDrain ==
    /\ DrainStart
    /\ corrupt \in SUBSET (1..(count - 1))
    /\ seekable = TRUE
    /\ present = TRUE
    /\ faults = 0
    /\ shape = CHOOSE sh \in Shapes : TRUE
    /\ jitter = 0
    /\ last = Outcome("init", -1, "ok", NoBuf, "ok", FALSE, "none")
    /\ iter = "idle"
    /\ yielded = <<>>
    /\ clean = TRUE
    /\ start = 0
    /\ startOpen = TRUE
    /\ startAfter = "first"
    /\ RegIdle
    /\ ConvIdle
    /\ ShareIdle
    /\ PureIdle

\* The file changes before or between the steps of the run, as in
\* CorruptFrame, SeekBreaks and FileVanishes; the run goes on.
FaultDuringDrain ==
    /\ alive /\ faults < MaxFaults
    /\ faults' = faults + 1
    /\ \/ /\ \E k \in (0..(count - 1)) \ corrupt : corrupt' = corrupt \cup {k}
          /\ UNCHANGED <<seekable, present>>
       \/ /\ seekable /\ seekable' = FALSE
          /\ UNCHANGED <<corrupt, present>>
       \/ /\ present /\ present' = FALSE
          /\ UNCHANGED <<corrupt, seekable>>
    /\ UNCHANGED <<count, shape, jitter, cvVars, objVars, last, iterVars, sideVars>>

NextDrain == NextStep \/ FaultDuringDrain

\* __next__ is called again and again, nothing else is called.
SpecDrain == InitDrain /\ [][NextDrain]_vars /\ WF_vars(NextStep)

\* ------------------------------------------------- check_regular_timestamps
\* time_tol_decimals of check_regular_timestamps.
time_tol_decimals == 9

\* One unit of the last kept decimal, in ticks: a tick is one unit of the
\* decimal after time_tol_decimals.
RoundStep == 10

\* Longest series drawn.
MaxTs == 4

\* Time values the series are drawn from: multiples of the frame period, and
\* deviations from one of them below, at half of, and above the tolerance.
TsValues ==
    {0, FrameTicks, 2 * FrameTicks, 2 * FrameTicks + JitterSmall,
     2 * FrameTicks + (RoundStep \div 2), 2 * FrameTicks + JitterBig,
     3 * FrameTicks}

\* numpy round(decimals=time_tol_decimals): to the nearest multiple of
\* RoundStep, a tie going to the even multiple.
Round9(x) ==
    LET q == x \div RoundStep
        r == x % RoundStep
    IN IF 2 * r < RoundStep THEN RoundStep * q
       ELSE IF 2 * r > RoundStep THEN RoundStep * (q + 1)
       ELSE IF q % 2 = 0 THEN RoundStep * q
       ELSE RoundStep * (q + 1)

\* np.diff(ts)
Diff(ts) == [i \in 1..(Len(ts) - 1) |-> ts[i + 1] - ts[i]]

\* np.unique(np.diff(ts).round(decimals=time_tol_decimals))
UniqDiffTs(ts) == {Round9(Diff(ts)[i]) : i \in 1..(Len(ts) - 1)}

\* check_regular_timestamps(ts): len(uniq_diff_ts) == 1
CheckRegularTimestamps(ts) == Cardinality(UniqDiffTs(ts)) = 1

InitRegular ==
    /\ rg_ts \in UNION {[1..n -> TsValues] : n \in 1..MaxTs}
    /\ rg_out = "none"
    /\ count = 0
    /\ corrupt = {}
    /\ seekable = TRUE
    /\ present = TRUE
    /\ faults = 0
    /\ shape \in Shapes
    /\ jitter = 0
    /\ opened = FALSE
    /\ pos = 0
    /\ stub = FALSE
    /\ cur = 0
    /\ frame_count = 0
    /\ fps = 0
    /\ frame = NoBuf
    /\ alive = FALSE
    /\ last = Outcome("new", -1, "ok", NoBuf, "none", FALSE, "none")
    /\ iter = "idle"
    /\ yielded = <<>>
    /\ clean = TRUE
    /\ start = 0
    /\ startOpen = TRUE
    /\ startAfter = "first"
    /\ ConvIdle
    /\ ShareIdle
    /\ PureIdle

CheckRegular ==
    /\ rg_out = "none"
    /\ rg_out' = (IF CheckRegularTimestamps(rg_ts) THEN "regular" ELSE "irregular")
    /\ UNCHANGED <<rg_ts, convVars, shareVars, pureVars, envVars, cvVars, objVars, last, iterVars>>

SpecRegular == InitRegular /\ [][CheckRegular]_vars

\* ------------------------------------------------------------------ construction
\* A file of any kind, before VideoCaptureContext(path, stub=...) is called.
InitCtor ==
    /\ count \in 0..MaxFrames
    /\ corrupt \in SUBSET (0..(count - 1))
    /\ seekable \in BOOLEAN
    /\ present \in BOOLEAN
    /\ faults = 0
    /\ shape \in Shapes
    /\ jitter \in (IF count = 3 THEN {0, JitterBig} ELSE {0})
    /\ opened = FALSE
    /\ pos = 0
    /\ stub \in BOOLEAN
    /\ cur = 0
    /\ frame_count = 0
    /\ fps = 0
    /\ frame = NoBuf
    /\ alive = FALSE
    /\ last = Outcome("new", -1, "ok", NoBuf, "none", FALSE, "none")
    /\ iter = "idle"
    /\ yielded = <<>>
    /\ clean = TRUE
    /\ start = 0
    /\ startOpen = TRUE
    /\ startAfter = "first"
    /\ RegIdle
    /\ ConvIdle
    /\ ShareIdle
    /\ PureIdle

\* Construction alone: a handle it returns is in a state of Init, from which
\* Spec follows its life.
SpecCtor == InitCtor /\ [][Construct]_vars

\* ------------------------------------------- MovieInterface.run_conversion
\* Most files given to one call.
MaxFiles == 2

\* uncompressed_estimate = Path(file).stat().st_size * 70
InflationFactor == 70

\* Spacing of the start times a caller supplies, in ticks.
StartGap == 1000

\* File sizes and amounts of available memory, in units of 10^6 bytes.
FileSizes == {1}
AvailableMemory == {50, 70, 90}

\* A chunk shape a caller supplies: (frames, height, width, colours).
ExplicitChunkShape == <<1, 2, 3, 3>>

\* The files of file_paths: readable ones of 1..MaxFrames frames, whose third
\* frame may be late, and ones that fail in exactly one way (missing, empty,
\* refusing seeks, frame 0 undecodable).
ConvFiles ==
    {f \in [count : 0..MaxFrames, corrupt : {{}, {0}}, seekable : BOOLEAN,
            present : BOOLEAN, jitter : {0, JitterSmall, JitterBig}] :
        LET ways == (IF f.count = 0 THEN 1 ELSE 0) + (IF 0 \in f.corrupt THEN 1 ELSE 0)
                    + (IF f.seekable THEN 0 ELSE 1) + (IF f.present THEN 0 ELSE 1)
        IN /\ f.corrupt \subseteq 0..(f.count - 1)
           /\ f.jitter # 0 => f.count >= 3
           /\ ways <= 1
           /\ ways = 1 => (f.count <= 1 /\ f.jitter = 0)}

\* Lists a caller supplies as starting_times.
SuppliedLists ==
    UNION {{[k \in 1..n |-> StartGap * (k - 1)], [k \in 1..n |-> StartGap]} :
           n \in 1..MaxFiles}

\* Frames decoded by VideoCaptureContext.__init__: get_movie_frame(0).
DecodedByInit == {0}

\* Frames decoded by the construction of a MovieDataChunkIterator beyond
\* those of the handle it builds: it looks at frame 0 only.
DecodedByChunkIterator == {0}

\* MovieDataChunkIterator(file, stub=stub, ...): it builds its
\* video_capture_ob, a VideoCaptureContext(file, stub), and ends as that
\* constructor ends.
ChunkIteratorOutcome(isOpen) == CtorOutcome(isOpen)

\* Mutant: a timestamp scan that reads each frame it visits.
DecodedByTimestamps_Reads(n) == 0..(n - 1)

\* Frames decoded by get_movie_timestamps over n frames: it only seeks and
\* reads the position field.
DecodedByTimestamps(n) == {}

\* Mutant: the start-time list is extended after every file.
ChainedStartingTimes_Always(times, nfiles, lastTs) == Append(times, lastTs)

\* if len(starting_times) != len(file_paths):
\*     starting_times.append(timestamps[-1])
ChainedStartingTimes(times, nfiles, lastTs) ==
    IF Len(times) # nfiles THEN Append(times, lastTs) ELSE times

\* Mutant: the memory check never fires.
MemoryPressure_Never(chunk, estimate, avail) == FALSE

\* if not chunk_data and uncompressed_estimate >= available_memory
MemoryPressure(chunk, estimate, avail) == ~chunk /\ estimate >= avail

\* Mutant: the iterator is built without the caller's chunk shape.
IteratorChunkShape_Dropped(cs) == <<>>

\* MovieDataChunkIterator(..., chunk_shape=chunk_shape)
IteratorChunkShape(cs) == cs

\* Mutant: the length of starting_times is not checked.
StartingTimesOk_LengthUnchecked(argType, times, nfiles) == argType = "floats"

\* isinstance(starting_times, list)
\* and all([isinstance(x, float) for x in starting_times])
\* and len(starting_times) == len(file_paths)
StartingTimesOk(argType, times, nfiles) ==
    argType = "floats" /\ Len(times) = nfiles

\* Mutant: chunk_data is not set by the memory check.
ChunkDataAfter_NotForced(chunk, warned) == chunk

\* chunk_data after the memory check of a file: "chunk_data = True" when it
\* fired; the variable is not reset between files.
ChunkDataAfter(chunk, warned) == chunk \/ warned

\* Mutant: the ImageSeries is added to the acquisition in every case.
RecordPlaces_Both(mname) == {"acquisition", mname} \ {"None"}

\* if module_name is None: nwbfile.add_acquisition(...)
\* else: get_module(...).add(...)
RecordPlaces(mname) == IF mname = "None" THEN {"acquisition"} ELSE {mname}

\* The description get_module gives a module when none is passed.
DefaultModuleDescription == "default"

\* A processing module the NWBFile may hold before the call.
ExistingModule == [name |-> "TestModule", description |-> "old", items |-> <<>>]

\* name in nwbfile.processing
ModuleExists(mods, name) == \E k \in 1..Len(mods) : mods[k].name = name

\* get_module(nwbfile, name, description): the module of that name, created
\* with the description when the NWBFile has none of that name.
GetModule(mods, name, description) ==
    IF ModuleExists(mods, name) THEN mods
    ELSE Append(mods, [name |-> name,
                       description |-> IF description = "None"
                                       THEN DefaultModuleDescription
                                       ELSE description,
                       items |-> <<>>])

\* get_module(...).add(ImageSeries(...)) for the places other than the
\* acquisition.
AddToModules(mods, places, item) ==
    LET names == places \ {"acquisition"}
        made == IF names = {} THEN mods
                ELSE GetModule(mods, CHOOSE n \in names : TRUE, module_description)
    IN [k \in 1..Len(made) |->
          IF made[k].name \in names
          THEN [made[k] EXCEPT !.items = Append(@, item)]
          ELSE made[k]]

\* The file the next constructor call meets.
FileIs(f) ==
    /\ count = f.count
    /\ corrupt = f.corrupt
    /\ seekable = f.seekable
    /\ present = f.present
    /\ jitter = f.jitter

\* The loop moves on to file f.
MeetFile(f) ==
    /\ count' = f.count
    /\ corrupt' = f.corrupt
    /\ seekable' = f.seekable
    /\ present' = f.present
    /\ jitter' = f.jitter

\* run_conversion(nwbfile, metadata, stub_test=stub, external_mode, ...) is
\* about to be called on 1..MaxFiles files; the handle variables are at rest
\* and the file variables describe the next file of file_paths.
InitConv ==
    /\ file_paths \in {[k \in 1..n |-> k] : n \in 1..MaxFiles}
    /\ external_mode \in BOOLEAN
    /\ chunk_data \in BOOLEAN
    /\ chunk_shape \in (IF external_mode THEN {<<>>} ELSE {<<>>, ExplicitChunkShape})
    /\ supplied \in BOOLEAN
    /\ starting_times_arg \in (IF supplied THEN SuppliedLists ELSE {<<>>})
    /\ starting_times = starting_times_arg
    /\ arg_type \in (IF supplied THEN {"floats", "ints", "tuple"} ELSE {"None"})
    /\ file_j = 0
    /\ pc = "new"
    /\ acquisition = <<>>
    /\ available \in AvailableMemory
    /\ st_size \in FileSizes
    /\ \E f \in ConvFiles : FileIs(f)
    /\ faults = 0
    /\ shape = CHOOSE sh \in Shapes : TRUE
    /\ stub \in BOOLEAN
    /\ opened = FALSE
    /\ pos = 0
    /\ cur = 0
    /\ frame_count = 0
    /\ fps = 0
    /\ frame = NoBuf
    /\ alive = FALSE
    /\ last = Outcome("new", -1, "ok", NoBuf, "none", FALSE, "none")
    /\ iter = "idle"
    /\ yielded = <<>>
    /\ clean = TRUE
    /\ start = 0
    /\ startOpen = TRUE
    /\ startAfter = "first"
    \* a module is named in calls whose other arguments are the defaults
    /\ module_name \in (IF external_mode /\ chunk_data /\ ~stub
                        THEN {"None", "TestModule"} ELSE {"None"})
    /\ module_description \in (IF module_name = "None" THEN {"None"}
                               ELSE {"None", "given"})
    /\ processing \in (IF module_name = "None" THEN {<<>>}
                       ELSE {<<>>, <<ExistingModule>>})
    /\ RegIdle
    /\ ShareIdle
    /\ PureIdle

convFixed == <<file_paths, external_mode, chunk_shape, supplied, starting_times_arg,
               arg_type, module_name, module_description,
               faults, shape, cvVars, objVars, iterVars, regVars, shareVars, pureVars>>

\* run_conversion up to its loop: the check of starting_times.
RunConversionBegin ==
    /\ pc = "new"
    /\ IF supplied
       THEN IF StartingTimesOk(arg_type, starting_times, Len(file_paths))
            THEN /\ pc' = "loop"
                 /\ UNCHANGED <<starting_times, last>>
            ELSE /\ pc' = "aborted"
                 /\ last' = Outcome("run_conversion", -1, "AssertionError", NoBuf,
                                    "none", FALSE, "none")
                 /\ UNCHANGED starting_times
       ELSE /\ starting_times' = <<0>>
            /\ pc' = "loop"
            /\ UNCHANGED last
    /\ UNCHANGED <<convFixed, chunk_data, file_j, acquisition, available, st_size,
                   processing, count, corrupt, seekable, present, jitter>>

\* The ImageSeries of one file: the keys of image_series_kwargs and their
\* values, and what the loop body did for it.
\*   src_count, src_jitter: the file it was made from
\*   computed: the timestamps computed for the file
\*   decoded: indices of the frames decoded from the file
\*   steps: how many times the chunk iterator was advanced
\*   places: where it was added: "acquisition" or the name of a module
\*   eager: chunk_data was False when the file was reached
\*   warned: the memory warning was emitted for the file
ImageSeriesOf(file, startTime, timestamps, n) ==
    LET regular == CheckRegularTimestamps(timestamps)
        uncompressed_estimate == st_size * InflationFactor
    IN [name |-> file,
        keys |-> {"name"}
                 \cup (IF regular THEN {"starting_time", "rate"} ELSE {"timestamps"})
                 \cup (IF external_mode THEN {"format", "external_file"} ELSE {"data"}),
        starting_time |-> IF regular THEN startTime ELSE 0,
        rate |-> IF regular THEN FileFps ELSE 0,
        timestamps |-> IF regular THEN <<>> ELSE timestamps,
        external_file |-> IF external_mode THEN <<file>> ELSE <<>>,
        data_chunk_shape |-> IF external_mode THEN <<>> ELSE IteratorChunkShape(chunk_shape),
        src_count |-> count,
        src_jitter |-> jitter,
        computed |-> timestamps,
        decoded |-> DecodedByInit \cup DecodedByChunkIterator \cup DecodedByTimestamps(n),
        steps |-> 0,
        places |-> RecordPlaces(module_name),
        eager |-> ~chunk_data,
        estimate |-> uncompressed_estimate,
        available |-> available,
        warned |-> ~external_mode /\ MemoryPressure(chunk_data, uncompressed_estimate, available)]

\* One turn of the loop of run_conversion, for file file_paths[j]; then the
\* next file, if any, is met.
ConvertFile ==
    /\ pc = "loop"
    /\ file_j < Len(file_paths)
    /\ LET file == file_paths[file_j + 1]
           how == ChunkIteratorOutcome(CvOpenOk)
           n == IF stub THEN StubFrameCount ELSE count
           native == MovieTimestamps(CvPosAfterSet(0), n, count, jitter)
           timestamps == [k \in 1..n |-> starting_times[file_j + 1] + native[k]]
           times == ChainedStartingTimes(starting_times, Len(file_paths), timestamps[n])
           rec == ImageSeriesOf(file, times[file_j + 1], timestamps, n)
       IN IF how # "ok"
          THEN /\ pc' = "aborted"
               /\ last' = Outcome("run_conversion", file_j, how, NoBuf, "none",
                                  FALSE, "none")
               /\ UNCHANGED <<starting_times, chunk_data, file_j, acquisition,
                              processing, available, st_size, count, corrupt,
                              seekable, present, jitter>>
          ELSE /\ starting_times' = times
               /\ chunk_data' = ChunkDataAfter(chunk_data, rec.warned)
               /\ acquisition' = Append(acquisition, rec)
               /\ processing' = AddToModules(processing, rec.places, rec.name)
               /\ file_j' = file_j + 1
               /\ IF file_j + 1 < Len(file_paths)
                  THEN /\ pc' = "loop"
                       /\ UNCHANGED last
                       /\ \E f \in ConvFiles : MeetFile(f)
                       /\ available' \in (IF external_mode THEN {available}
                                          ELSE AvailableMemory)
                       /\ st_size' \in FileSizes
                  ELSE /\ pc' = "done"
                       /\ last' = Outcome("run_conversion", file_j, "ok", NoBuf,
                                          "none", FALSE, "none")
                       /\ UNCHANGED <<available, st_size, count, corrupt,
                                      seekable, present, jitter>>
    /\ UNCHANGED convFixed

NextConv ==
    \/ RunConversionBegin
    \/ ConvertFile

SpecConv == InitConv /\ [][NextConv]_vars

\* ------------------------------------------------- no handle, no conversion
\* The state of everything but the pure functions below.
NoHandle ==
    /\ count = 0
    /\ corrupt = {}
    /\ seekable = TRUE
    /\ present = TRUE
    /\ faults = 0
    /\ shape = CHOOSE sh \in Shapes : TRUE
    /\ jitter = 0
    /\ opened = FALSE
    /\ pos = 0
    /\ stub = FALSE
    /\ cur = 0
    /\ frame_count = 0
    /\ fps = 0
    /\ frame = NoBuf
    /\ alive = FALSE
    /\ last = Outcome("new", -1, "ok", NoBuf, "none", FALSE, "none")
    /\ iter = "idle"
    /\ yielded = <<>>
    /\ clean = TRUE
    /\ start = 0
    /\ startOpen = TRUE
    /\ startAfter = "first"
    /\ RegIdle
    /\ ConvIdle
    /\ ShareIdle

\* ------------------------------------------------------------ chunked write
MaxPlanFrames == 6
MaxBudget == 8
MaxFrameBytes == 3

\* The example of the specification: 50 frames, chunks of 10.
ExampleFrames == 50
ExampleBudget == 30

Max(a, b) == IF a > b THEN a ELSE b

\* Mutant: no minimum of one frame.
ChunkFrames_NoMinimum(budget, bpf) == budget \div bpf

\* Chunk frame-count from a memory budget: floor(budget / bytes-per-frame),
\* at least 1.
ChunkFrames(budget, bpf) == Max(1, budget \div bpf)

\* The frames of the next chunk: the next c frames of the source, fewer at
\* its end; frames are numbered from 0.
NextChunkOf(written, c, total) ==
    [k \in 1..Min(c, total - written) |-> written + k - 1]

RECURSIVE Concatenated(_)
Concatenated(cs) ==
    IF cs = <<>> THEN <<>> ELSE Head(cs) \o Concatenated(Tail(cs))

InitChunk ==
    /\ total_frames \in (1..MaxPlanFrames) \cup {ExampleFrames}
    /\ memory_budget \in (0..MaxBudget) \cup {ExampleBudget}
    /\ bytes_per_frame \in 1..MaxFrameBytes
    /\ chunk_frames = -1
    /\ chunks = <<>>
    /\ ls_arg = <<>>
    /\ d_arg = NoDict
    /\ deep_arg = FALSE
    /\ ar_out = [kind |-> "none", ls |-> <<>>]
    /\ NoHandle

chunkFixed == <<total_frames, memory_budget, bytes_per_frame, dictVars,
                envVars, cvVars, objVars, last, iterVars,
                regVars, convVars, shareVars>>

PlanChunks ==
    /\ chunk_frames = -1
    /\ chunk_frames' = ChunkFrames(memory_budget, bytes_per_frame)
    /\ UNCHANGED <<chunks, chunkFixed>>

WriteChunk ==
    /\ chunk_frames # -1
    /\ Len(Concatenated(chunks)) < total_frames
    /\ chunks' = Append(chunks, NextChunkOf(Len(Concatenated(chunks)),
                                            chunk_frames, total_frames))
    /\ UNCHANGED <<chunk_frames, chunkFixed>>

NextChunk == PlanChunks \/ WriteChunk

SpecChunk == InitChunk /\ [][NextChunk]_vars

\* ---------------------------------------------- append_replace_dict_in_list
MaxListLen == 2

\* Elements of a metadata list: mappings with and without the compare_key
\* and with and without another field, and an int.
DictElems == {[tag |-> "dict", name |-> n, x |-> v] :
                 n \in {"a", "b", "none"}, v \in {-1, 0}}
IntElems == {[tag |-> "int", name |-> "none", x |-> 5]}

\* isinstance(i, collections.abc.Mapping)
IsMapping(i) == i.tag = "dict"

\* dict_deep_update(d, u) on flat mappings: u's fields over d's; u itself
\* (and a warning) when d is not a mapping.
DictDeepUpdate(old, u) ==
    IF ~IsMapping(old) THEN u
    ELSE [tag |-> "dict",
          name |-> IF u.name # "none" THEN u.name ELSE old.name,
          x |-> IF u.x # -1 THEN u.x ELSE old.x]

\* [... for i in ls if isinstance(i, collections.abc.Mapping)]
MappingsOf(l) == SelectSeq(l, IsMapping)

\* i[compare_key] on a mapping without the key
RaisesKeyError(l) ==
    \E k \in 1..Len(MappingsOf(l)) : MappingsOf(l)[k].name = "none"

\* np.where([d.get(compare_key, None) == i[compare_key] for i in ls
\*           if isinstance(i, collections.abc.Mapping)])[0]:
\* positions in the list of the mappings of ls.
Indxs(l, dd) ==
    {k \in 1..Len(MappingsOf(l)) : MappingsOf(l)[k].name = dd.name}

\* append_replace_dict_in_list(ls, d, compare_key, list_dict_deep_update)
\* for a list ls and a mapping d.
AppendReplaceDictInList(l, dd, deep) ==
    IF RaisesKeyError(l) THEN [kind |-> "KeyError", ls |-> l]
    ELSE IF Indxs(l, dd) # {}
         THEN [kind |-> "ok",
               ls |-> [k \in 1..Len(l) |->
                         IF k \in Indxs(l, dd)
                         THEN IF deep THEN DictDeepUpdate(l[k], dd) ELSE dd
                         ELSE l[k]]]
         ELSE [kind |-> "ok", ls |-> Append(l, dd)]

InitDict ==
    /\ ls_arg \in UNION {[1..n -> DictElems \cup IntElems] : n \in 0..MaxListLen}
    /\ d_arg \in {[tag |-> "dict", name |-> n, x |-> 1] : n \in {"a", "none"}}
    /\ deep_arg \in BOOLEAN
    /\ ar_out = [kind |-> "none", ls |-> <<>>]
    /\ total_frames = 0
    /\ memory_budget = 0
    /\ bytes_per_frame = 0
    /\ chunk_frames = -1
    /\ chunks = <<>>
    /\ NoHandle

AppendReplace ==
    /\ ar_out.kind = "none"
    /\ ar_out' = AppendReplaceDictInList(ls_arg, d_arg, deep_arg)
    /\ UNCHANGED <<ls_arg, d_arg, deep_arg, chunkVars, envVars, cvVars,
                   objVars, last, iterVars, regVars, convVars, shareVars>>

SpecDict == InitDict /\ [][AppendReplace]_vars

\* ================================================================== claims
\* What a read at frame position k gives the iterator: the file's frame k, or
\* the sentinel when the decode fails there (a damaged frame, or no frame).
DecodeFails(k) == k >= count \/ k \in corrupt
ExpectedAt(k) ==
    IF DecodeFails(k)
    THEN [kind |-> "nan", idx |-> -1, shape |-> frame.shape]
    ELSE [kind |-> "frame", idx |-> k, shape |-> shape]

\* The iteration on record ran undisturbed on a source that can be opened and sought.
Undisturbed == iter # "idle" /\ clean /\ seekable /\ present

\* The file is well formed: every frame decodes, seeks work, it can be opened.
WellFormed == corrupt = {} /\ seekable /\ present

\* C1: an iteration begun at cursor 0 on the freshly opened handle yields its
\* elements in source order: the k-th element yielded is what position k of
\* the source gives, never a frame of another position; the cursor is one past
\* the last element after every step; and when StopIteration arrives exactly
\* frame_count elements were yielded.
C1_SequentialOrder ==
    (Undisturbed /\ startAfter = "first" /\ startOpen /\ start = 0) =>
        /\ \A k \in 1..Len(yielded) :
              /\ yielded[k].kind = "frame" => yielded[k].idx = k - 1
              /\ ~DecodeFails(k - 1) => yielded[k].kind = "frame"
        /\ iter = "active" => cur = Len(yielded)
        /\ iter = "done" => Len(yielded) = frame_count

C1_Witness ==
    /\ Undisturbed /\ startAfter = "first" /\ startOpen /\ start = 0
    /\ iter = "done" /\ last.op = "next" /\ last.cause = "exhausted"
    /\ ~stub /\ count = MaxFrames /\ corrupt = {}
    /\ Len(yielded) = count

\* C2 (as stated): a second iteration attempt right after exhaustion, on the
\* handle the caller did not reopen, yields nothing: it fails or is refused.
C2_SecondIterationRefused ==
    (iter # "idle" /\ clean /\ startAfter = "exhausted" /\ ~startOpen) =>
        yielded = <<>>

\* C2 (amended): a second iteration right after exhaustion, on the handle the
\* caller did not reopen, is neither refused nor empty: it starts at cursor 0
\* again, its first step re-opens the source and yields position 0, and it
\* ends by exhaustion after frame_count elements.
C2_SecondIterationRestarts ==
    (Undisturbed /\ startAfter = "exhausted" /\ ~startOpen) =>
        /\ start = 0
        /\ Len(yielded) >= 1
        /\ yielded[1] = ExpectedAt(0)
        /\ last.op = "next" => last.cause # "error"
        /\ iter = "done" => Len(yielded) = frame_count

C2_Witness ==
    /\ Undisturbed /\ startAfter = "exhausted" /\ ~startOpen
    /\ iter = "done" /\ last.op = "next" /\ last.cause = "exhausted"
    /\ Len(yielded) = frame_count

\* C3: an iteration begun on a released handle (after __exit__, or after a
\* previous loop ran out) does not fail: each step yields the next position
\* starting from frame 0, and the loop ends by exhaustion after frame_count
\* elements; so do two loops in succession.
C3_IterationAfterRelease ==
    (Undisturbed /\ ~startOpen /\ start = 0) =>
        /\ \A k \in 1..Len(yielded) : yielded[k] = ExpectedAt(k - 1)
        /\ iter = "active" => Len(yielded) >= 1
        /\ iter = "done" => Len(yielded) = frame_count
        /\ (iter = "done" /\ last.op = "next") => last.cause = "exhausted"

C3_Witness ==
    /\ Undisturbed /\ ~startOpen /\ start = 0 /\ startAfter = "exhausted"
    /\ iter = "done" /\ last.op = "next" /\ last.cause = "exhausted"
    /\ ~stub /\ count >= 2 /\ Len(yielded) = count

\* C4 (as stated): between two consecutive __next__ calls of an iteration in
\* progress the handle is open.
C4_OpenBetweenSteps ==
    (iter = "active" /\ last.op = "next" /\ last.kind \in Yields) => opened

\* C4 (amended): the handle is open only during a step: every __next__ that
\* yields an element has released the handle when it returns, so between two
\* consecutive __next__ calls the handle is released.
C4_ReleasedBetweenSteps ==
    (last.op = "next" /\ last.kind \in Yields) => ~opened

C4_Witness ==
    /\ last.op = "next" /\ last.kind = "frame" /\ last.idx = 1
    /\ iter = "active" /\ cur = 2 /\ cur < frame_count /\ ~opened

\* C5: after __next__ raised StopIteration, for whatever reason, the handle is
\* released.
C5_ReleasedAfterStop ==
    (last.op = "next" /\ last.kind = "StopIteration") => ~opened

\* C6: on an open handle of a well-formed file, get_movie_frame(i) does not
\* raise when i < frame_count and raises the assertion failure when
\* i >= frame_count.
C6_FrameIndexRange ==
    (last.op = "get_movie_frame" /\ last.wasOpen /\ last.arg >= 0 /\ WellFormed) =>
        /\ last.arg < frame_count => last.kind \notin Raises
        /\ last.arg >= frame_count => last.kind = "AssertionError"

C6_Witness ==
    /\ last.op = "get_movie_frame" /\ last.wasOpen /\ WellFormed
    /\ last.arg = frame_count /\ last.kind = "AssertionError"

\* C7: a get_movie_frame(0) whose decode failed raised; it returned nothing.
C7_FirstFrameFailureRaises ==
    (last.op = "get_movie_frame" /\ last.arg = 0 /\ last.decoded = "fail") =>
        last.kind \in Raises

\* C8: a get_movie_frame(i) with 0 < i < frame_count whose decode failed
\* returned the NaN sentinel, of the shape of the handle's frames.
C8_SentinelOnFailure ==
    (/\ last.op = "get_movie_frame" /\ last.decoded = "fail"
     /\ 0 < last.arg /\ last.arg < frame_count) =>
        /\ last.kind = "nan"
        /\ last.shape = frame.shape

C8_Witness ==
    /\ last.op = "get_movie_frame" /\ last.decoded = "fail"
    /\ 0 < last.arg /\ last.arg < count /\ last.arg \in corrupt
    /\ last.kind = "nan"

\* Some frame after the first fails to decode.
MidStreamFailure == \E k \in 1..(frame_count - 1) : DecodeFails(k)

\* C9: in an iteration begun at cursor 0 over a source with a decode failure
\* after frame 0, every position whose decode fails yields a NaN sentinel of
\* the frames' shape, every other position yields its own frame, the failure
\* does not end the iteration, and frame_count elements are yielded in all.
C9_SentinelMidStream ==
    (Undisturbed /\ start = 0 /\ MidStreamFailure) =>
        /\ \A k \in 1..Len(yielded) :
              IF DecodeFails(k - 1)
              THEN yielded[k] = [kind |-> "nan", idx |-> -1, shape |-> frame.shape]
              ELSE yielded[k] = FrameBuf(k - 1)
        /\ (last.op = "next" /\ last.kind = "nan") => iter = "active"
        /\ iter = "done" => Len(yielded) = frame_count

C9_Witness ==
    /\ Undisturbed /\ start = 0
    /\ ~stub /\ count = MaxFrames /\ corrupt = {1}
    /\ iter = "done" /\ last.op = "next" /\ last.cause = "exhausted"
    /\ Len(yielded) = count /\ yielded[2].kind = "nan" /\ yielded[count].kind = "frame"

\* C11: the constructor raises, and no handle is obtained, whenever the file
\* does not open, holds no frame, or its frame 0 does not decode, with stub
\* set or not.
C11_ConstructorRejects ==
    (last.op = "init" /\ faults = 0
     /\ (~present \/ count = 0 \/ 0 \in corrupt)) =>
        /\ last.kind \in Raises
        /\ ~alive

C11_Witness ==
    /\ last.op = "init" /\ faults = 0
    /\ stub /\ present /\ seekable /\ count >= 2 /\ 0 \in corrupt
    /\ last.kind = "AssertionError" /\ ~alive

\* C12: in stub mode the handle's frame count is min(true frame count, 10).
C12_StubFrameCount ==
    (alive /\ stub) => frame_count = Min(count, StubFrameCount)

\* C13: the cursor lies in 0..frame_count, and it is 0 after a full scan:
\* when get_movie_timestamps has returned and when __next__ has signalled
\* the end of the sequence on reaching frame_count.
C13_CursorRange ==
    /\ cur \in 0..frame_count
    /\ (last.op = "get_movie_timestamps" /\ last.kind = "ts") => cur = 0
    /\ (last.op = "next" /\ last.cause = "exhausted") => cur = 0

C13_Witness ==
    /\ last.op = "get_movie_timestamps" /\ last.kind = "ts"
    /\ frame_count >= 2 /\ cur = 0 /\ iter = "active"

\* C14: get_movie_timestamps on an open handle (whose backend accepts seeks)
\* returns frame_count timestamps, the j-th being the position field at
\* frame j (the last position of the file when j lies past its end), and
\* leaves the cursor at 0; on a handle that is not open it raises.
C14_Timestamps ==
    (last.op = "get_movie_timestamps") =>
        /\ ~last.wasOpen => last.kind = "ValueError"
        /\ (last.wasOpen /\ seekable) => last.kind = "ts"
        /\ last.kind = "ts" =>
              /\ Len(last.ts) = frame_count
              /\ \A j \in 0..(frame_count - 1) :
                    last.ts[j + 1] = PosMsec(Min(j, count), jitter)
              /\ cur = 0

C14_Witness ==
    /\ last.op = "get_movie_timestamps" /\ last.kind = "ts"
    /\ ~stub /\ count = 3 /\ jitter = JitterBig
    /\ last.ts = <<0, FrameTicks, 2 * FrameTicks + JitterBig>>

\* All consecutive differences of ts, rounded, are equal.
RoundedDiffsEqual(ts) ==
    \A i, j \in 1..(Len(ts) - 1) : Round9(Diff(ts)[i]) = Round9(Diff(ts)[j])

\* C15: check_regular_timestamps(ts) is true exactly when all consecutive
\* differences of ts, rounded to 9 decimals, are equal, for every series of
\* at least one element.
C15_RegularIffEqualDiffs ==
    (rg_out # "none" /\ Len(rg_ts) >= 1) =>
        (rg_out = "regular" <=> RoundedDiffsEqual(rg_ts))

\* The records added so far.
Records == {acquisition[k] : k \in 1..Len(acquisition)}

\* The series the frames of the file of record r carry natively.
SourceTimestamps(r) == [k \in 1..r.src_count |-> PosMsec(k - 1, r.src_jitter)]

\* C16: every record carries exactly one time description: starting_time
\* with rate (the container's fps) when the timestamps of its file are
\* regular, the explicit timestamp array when they are not.
C16_OneTimeDescription ==
    \A r \in Records :
        /\ ("rate" \in r.keys) # ("timestamps" \in r.keys)
        /\ ("rate" \in r.keys) <=> ("starting_time" \in r.keys)
        /\ RoundedDiffsEqual(r.computed) =>
              ("rate" \in r.keys /\ r.rate = FileFps)
        /\ ~RoundedDiffsEqual(r.computed) =>
              ("timestamps" \in r.keys /\ r.timestamps = r.computed)

\* The start given to the file of record r.
RecStart(r) == IF "rate" \in r.keys THEN r.starting_time ELSE r.timestamps[1]

\* C17: without starting_times, file 0 starts at 0 and file j >= 1 at the
\* last timestamp computed for file j-1; with starting_times, file j starts
\* at starting_times[j] and the list is left as it was passed.
C17_StartTimes ==
    /\ supplied => starting_times = starting_times_arg
    /\ \A k \in 1..Len(acquisition) :
          RecStart(acquisition[k]) =
              (IF supplied THEN starting_times_arg[k]
               ELSE IF k = 1 THEN 0
               ELSE acquisition[k - 1].computed[Len(acquisition[k - 1].computed)])

C17_Witness ==
    /\ pc = "done" /\ ~supplied /\ Len(acquisition) = 2
    /\ RecStart(acquisition[1]) = 0
    /\ RecStart(acquisition[2]) = 2 * FrameTicks + JitterBig
    /\ starting_times = <<0, 2 * FrameTicks + JitterBig>>

\* C18: in external mode each file converted has exactly one record, which
\* holds the file path and either the rate or the timestamps and no frame
\* data; the chunk iterator is never advanced and no frame but frame 0 is
\* decoded; a regular source of 25 fps gets rate 25.
C18_ExternalMode ==
    external_mode =>
        /\ Len(acquisition) = file_j
        /\ \A k \in 1..Len(acquisition) :
              LET r == acquisition[k]
              IN /\ r.name = file_paths[k]
                 /\ "external_file" \in r.keys
                 /\ r.external_file = <<file_paths[k]>>
                 /\ "data" \notin r.keys
                 /\ ("rate" \in r.keys) # ("timestamps" \in r.keys)
                 /\ r.steps = 0
                 /\ r.decoded \subseteq {0}
                 /\ RoundedDiffsEqual(SourceTimestamps(r)) =>
                       ("rate" \in r.keys /\ r.rate = FileFps)

\* C19: in embedded mode, when chunk_data was False and the estimate
\* st_size * 70 exceeds the available memory, chunk_data becomes True, the
\* warning is emitted, and the record of the file is still added.
C19_MemoryOverride ==
    /\ pc \in {"loop", "done"} => Len(acquisition) = file_j
    /\ \A k \in 1..Len(acquisition) :
          LET r == acquisition[k]
          IN /\ r.name = file_paths[k]
             /\ r.estimate = st_size * InflationFactor
             /\ (~external_mode /\ r.eager /\ r.estimate > r.available) =>
                   /\ r.warned
                   /\ chunk_data
                   /\ "data" \in r.keys

C19_Witness ==
    /\ pc = "done" /\ ~external_mode /\ Len(acquisition) = 2
    /\ acquisition[1].eager /\ acquisition[1].warned
    /\ acquisition[1].estimate = 70 /\ acquisition[1].available = 50
    /\ ~acquisition[2].eager /\ ~acquisition[2].warned /\ chunk_data

\* C20 as stated: with an explicit chunk shape in embedded mode the shape is
\* used as given and the memory check is skipped: no warning, no override.
C20_ExplicitShapeSkipsCheck ==
    (~external_mode /\ chunk_shape # <<>>) =>
        \A r \in Records :
            /\ r.data_chunk_shape = chunk_shape
            /\ ~r.warned
            /\ r.eager => ~chunk_data

\* C20: with an explicit chunk shape in embedded mode the shape is handed to
\* the chunk iterator as given, and the memory check is made all the same:
\* the warning is emitted, and chunk_data forced to True, exactly when
\* chunk_data was False and st_size * 70 >= the available memory.
C20_ExplicitShapeStillChecked ==
    (~external_mode /\ chunk_shape # <<>>) =>
        \A r \in Records :
            /\ r.data_chunk_shape = chunk_shape
            /\ r.warned <=> (r.eager /\ r.estimate >= r.available)
            /\ r.warned => chunk_data

C20_Witness ==
    /\ ~external_mode /\ chunk_shape = ExplicitChunkShape
    /\ Len(acquisition) = 1
    /\ acquisition[1].data_chunk_shape = ExplicitChunkShape
    /\ acquisition[1].warned /\ chunk_data
    /\ acquisition[1].estimate = acquisition[1].available

\* C24: a failure to re-open the source or to reach a frame inside a
\* sequential step is reported to the caller as an error, which differs from
\* the normal end of the sequence.
C24_StepFailureSurfaced ==
    (last.op = "next" /\ last.cause = "error") => last.kind # "StopIteration"

\* The random-access call that was made last has returned a value.
RandomAccessReturned(l) ==
    \/ l.op = "get_movie_frame" /\ l.kind \in Yields
    \/ l.op = "get_movie_timestamps" /\ l.kind = "ts"

\* C27: when get_movie_frame(i) or get_movie_timestamps has returned, the
\* cursor is 0; a __next__ that follows it, in the middle of an iteration or
\* not, addresses frame 0: with the file openable and seekable it yields
\* frame 0 (the sentinel if frame 0 does not decode) and moves the cursor to 1.
C27_RandomAccessRewinds ==
    [][/\ RandomAccessReturned(last') => cur' = 0
       /\ (RandomAccessReturned(last) /\ last'.op = "next") =>
             /\ last'.kind = "frame" => last'.idx = 0
             /\ last'.kind = "nan" => DecodeFails(0)
             /\ (present /\ seekable) => (last'.kind \in Yields /\ cur' = 1)]_vars

C27_Witness ==
    /\ last.op = "next" /\ last.kind = "frame" /\ last.idx = 0
    /\ iter = "active" /\ ~clean /\ faults = 0 /\ cur = 1

\* C23 as stated: releasing the handle in the middle of an iteration never
\* raises, and it cancels the iteration: no further frame is yielded.
C23_EarlyReleaseCancels ==
    [][/\ last'.op = "exit" => last'.kind = "ok"
       /\ (last.op = "exit" /\ iter = "active" /\ last'.op = "next") =>
             last'.kind \notin Yields]_vars

\* C23: releasing the handle in the middle of an iteration never raises and
\* leaves the cursor where it is, and it does not cancel: the next __next__
\* re-opens the source and, the file being openable and seekable, yields the
\* element of the cursor and advances it, or ends the sequence when the
\* cursor has reached frame_count.
C23_EarlyReleaseResumes ==
    [][/\ last'.op = "exit" => (last'.kind = "ok" /\ ~opened' /\ cur' = cur)
       /\ (last.op = "exit" /\ iter = "active" /\ last'.op = "next"
           /\ present /\ seekable) =>
             IF cur < frame_count
             THEN /\ last'.kind \in Yields
                  /\ last'.kind = "frame" => last'.idx = cur
                  /\ last'.kind = "nan" => DecodeFails(cur)
                  /\ cur' = cur + 1
             ELSE last'.kind = "StopIteration" /\ last'.cause = "exhausted"]_vars

C23_Witness ==
    /\ last.op = "exit" /\ last.kind = "ok" /\ ~opened
    /\ iter = "active" /\ clean /\ cur = 1 /\ cur < frame_count
    /\ present /\ seekable

\* C22: one iteration at most is in progress on a handle: no second consumer
\* obtains an iterator from a handle whose iteration is in progress, and two
\* steps of one iteration are never made by different consumers.
C22_SingleIteration ==
    /\ (last.op = "iter" /\ iter = "active") => holders = {last.arg}
    /\ (last.op = "next" /\ last.kind \in Yields /\ Len(yielded) >= 2) =>
          stepper = prev

\* C25: every file that run_conversion gets through adds exactly one
\* ImageSeries named after the file: to the acquisition and to no module when
\* module_name is None; otherwise to the one processing module of that name
\* and not to the acquisition, the module being created with
\* module_description (the default description when none is given) when the
\* NWBFile had no module of that name, and otherwise kept as it was.
C25_ModulePlacement ==
    [][(file_j' = file_j + 1) =>
          LET rec == acquisition'[file_j']
          IN /\ acquisition' = Append(acquisition, rec)
             /\ rec.name = file_paths[file_j']
             /\ IF module_name = "None"
                THEN /\ rec.places = {"acquisition"}
                     /\ processing' = processing
                ELSE /\ rec.places = {module_name}
                     /\ Cardinality({k \in 1..Len(processing') :
                                        processing'[k].name = module_name}) = 1
                     /\ \A k \in 1..Len(processing) :
                           processing'[k] =
                              IF processing[k].name = module_name
                              THEN [processing[k] EXCEPT
                                       !.items = Append(@, rec.name)]
                              ELSE processing[k]
                     /\ IF ModuleExists(processing, module_name)
                        THEN Len(processing') = Len(processing)
                        ELSE /\ Len(processing') = Len(processing) + 1
                             /\ processing'[Len(processing')] =
                                  [name |-> module_name,
                                   description |->
                                      IF module_description = "None"
                                      THEN DefaultModuleDescription
                                      ELSE module_description,
                                   items |-> <<rec.name>>]]_vars

C25_Witness ==
    /\ pc = "done" /\ module_name = "TestModule" /\ Len(acquisition) = 2
    /\ Len(processing) = 1
    /\ processing[1].name = "TestModule"
    /\ processing[1].description = "given"
    /\ processing[1].items = <<file_paths[1], file_paths[2]>>

\* C29: the start-time list is long enough whenever it is indexed: while file
\* j is waiting the list has more than j entries; a list the code made itself
\* has min(j + 1, N) entries after j files, so it grows by at most one entry
\* per file and only while shorter than N; a supplied list keeps its N
\* entries; the list has N entries when the loop ends. A supplied value that
\* is not a list of N floats raises AssertionError before any file is opened
\* and before any record is added.
C29_StartTimesLongEnough ==
    LET N == Len(file_paths)
        bad == supplied /\ ~(arg_type = "floats" /\ Len(starting_times_arg) = N)
    IN /\ (pc = "loop") => (file_j < N /\ Len(starting_times) > file_j)
       /\ (pc \in {"loop", "done"} /\ ~supplied) =>
             Len(starting_times) = Min(file_j + 1, N)
       /\ (pc \in {"loop", "done"} /\ supplied) =>
             (starting_times = starting_times_arg /\ Len(starting_times) = N)
       /\ (pc = "done") => (file_j = N /\ Len(starting_times) = N)
       /\ (bad /\ pc # "new") =>
             /\ pc = "aborted"
             /\ last.op = "run_conversion" /\ last.kind = "AssertionError"
             /\ last.arg = -1
             /\ file_j = 0 /\ acquisition = <<>>
             /\ starting_times = starting_times_arg

C29_Witness ==
    /\ pc = "done" /\ ~supplied /\ Len(file_paths) = 2
    /\ Len(starting_times) = 2 /\ starting_times[1] = 0 /\ starting_times[2] > 0

\* C30: in one call the memory warning is given for at most one file; it is
\* never given in external mode nor for a file reached with chunk_data
\* already True; after the file it was given for chunk_data is True and
\* every later file of the call is reached with chunk_data True.
C30_WarnedAtMostOnce ==
    LET W == {k \in 1..Len(acquisition) : acquisition[k].warned}
    IN /\ Cardinality(W) <= 1
       /\ \A k \in W :
             /\ ~external_mode
             /\ acquisition[k].eager
             /\ chunk_data
             /\ \A m \in (k + 1)..Len(acquisition) :
                   ~acquisition[m].eager /\ ~acquisition[m].warned

C30_Witness ==
    /\ pc = "done" /\ ~external_mode /\ Len(acquisition) = 2
    /\ acquisition[1].eager /\ acquisition[1].warned
    /\ ~acquisition[2].eager /\ ~acquisition[2].warned
    /\ acquisition[2].estimate >= acquisition[2].available

\* C21: a chunk frame-count planned from a memory budget is
\* floor(budget / bytes-per-frame), and 1 when that is less than 1; the
\* chunks that have arrived concatenate to the first frames of the source in
\* original order, every chunk but the last has c frames and the last has
\* between 1 and c; when all F frames are written there are ceil(F / c)
\* chunks (5 chunks of 10 frames for 50 frames and c = 10).
C21_ChunkPlan ==
    (chunk_frames # -1) =>
       LET c == chunk_frames
           F == total_frames
           flat == Concatenated(chunks)
       IN /\ c >= 1
          /\ IF memory_budget >= bytes_per_frame
             THEN /\ c * bytes_per_frame <= memory_budget
                  /\ (c + 1) * bytes_per_frame > memory_budget
             ELSE c = 1
          /\ Len(flat) <= F
          /\ \A k \in 1..Len(flat) : flat[k] = k - 1
          /\ \A k \in 1..Len(chunks) :
                /\ Len(chunks[k]) \in 1..c
                /\ k < Len(chunks) => Len(chunks[k]) = c
          /\ (Len(flat) = F) => Len(chunks) = (F + c - 1) \div c
          /\ (Len(flat) = F /\ F = ExampleFrames /\ c = 10) =>
                (Len(chunks) = 5 /\ \A k \in 1..5 : Len(chunks[k]) = 10)

C21_Witness ==
    /\ total_frames = ExampleFrames /\ chunk_frames = 10
    /\ Len(chunks) = 5 /\ Len(Concatenated(chunks)) = ExampleFrames

\* C26 as stated: for a list ls and a mapping d, the mappings of ls whose
\* compare_key value equals d's are deep-updated with d (replaced by d when
\* list_dict_deep_update is False), every other element is unchanged and d
\* is not appended; d is appended when no mapping of ls has a matching
\* compare_key, mappings that lack the key included.
C26_AppendReplace ==
    (ar_out.kind # "none") =>
       LET M == {k \in 1..Len(ls_arg) :
                    /\ IsMapping(ls_arg[k])
                    /\ ls_arg[k].name # "none"
                    /\ ls_arg[k].name = d_arg.name}
       IN /\ ar_out.kind = "ok"
          /\ IF M # {}
             THEN /\ Len(ar_out.ls) = Len(ls_arg)
                  /\ \A k \in 1..Len(ls_arg) :
                        ar_out.ls[k] =
                           IF k \in M
                           THEN IF deep_arg THEN DictDeepUpdate(ls_arg[k], d_arg)
                                ELSE d_arg
                           ELSE ls_arg[k]
             ELSE ar_out.ls = Append(ls_arg, d_arg)

\* C28: when __next__ is called again and again and nothing else is, an
\* iteration begun at cursor c yields at most frame_count - c elements (so
\* never more than frame_count) before StopIteration, whether seeks and reads
\* succeed or fail, and StopIteration is raised again and again: every
\* iteration ends.
C28_IterationTerminates ==
    /\ [](/\ start <= frame_count
          /\ Len(yielded) <= frame_count - start
          /\ Len(yielded) <= frame_count)
    /\ []<>(last.op = "next" /\ last.kind = "StopIteration")

C28_Witness ==
    /\ last.op = "next" /\ last.kind = "StopIteration" /\ last.cause = "exhausted"
    /\ start = 1 /\ ~stub /\ frame_count = 3
    /\ Len(yielded) = frame_count - start

\* C10: __exit__ or __del__ on a handle that is already released does not
\* raise and changes nothing: the handle stays released, and the cursor,
\* frame_count, fps and the cached first frame are as before.
C10_CloseIdempotent ==
    [][((Exit \/ Del) /\ ~opened) =>
          /\ ~opened'
          /\ last'.kind = "ok"
          /\ cur' = cur /\ frame_count' = frame_count
          /\ fps' = fps /\ frame' = frame]_vars

C10_Witness ==
    /\ last.op \in {"exit", "del"} /\ ~last.wasOpen /\ ~opened
    /\ cur > 0

====
